---- MODULE Spec2Model ----
(***************************************************************************)
(* A model of the concept core of zachmdsi/clarity: src/include/concept.h, *)
(* src/src/concept.c (create_concept, add_slot, print_concept,             *)
(* free_concept) and the demo driver src/src/main.c.                       *)
(*                                                                         *)
(* Memory is modelled structurally.  A Concept record lives at an address  *)
(* 1..MaxConcepts (0 is NULL); malloc hands out the lowest address that    *)
(* was never used before (the addresses are interchangeable).  A string    *)
(* block is named by the field that owns it:                               *)
(* <<"id",c,0>>, <<"types",c,0>>, <<"name",c,i>>; the caller's own buffers *)
(* are <<"buf",0,k>> and the string literals of main.c are <<"lit",0,k>>.  *)
(* The slot array of concept c is the block slotsmem[c].                   *)
(***************************************************************************)
EXTENDS Integers, Sequences, FiniteSets, TLC

\* ------------------------------------------------------------- bounds
MaxConcepts == 2          \* concept records the heap can hold
MaxSlots == 2             \* slots the general caller's concepts hold in total
MaxCalls == 5             \* steps the general caller takes
MaxDeepSlots == 9         \* appends made by the single-concept caller
IntMax == 2147483647      \* INT_MAX of int (slot_count, slot_capacity)
NarrowBits == 5           \* width of int in the build scaled down for the
                          \* arithmetic of line 110
NarrowIntMax == 2 ^ (NarrowBits - 1) - 1

Concepts == 1..MaxConcepts
NULL == 0
NULLA == <<"null", 0, 0>>

\* ------------------------------------------------------------- strings
Strs == {"a", "b"}
InitStr == "a"
Bufs == {<<"buf", 0, 1>>}
LitVal == <<"john", "Person", "book", "Object", "owns">>
Lit(k) == <<"lit", 0, k>>

IdAddr(c) == <<"id", c, 0>>
TypesAddr(c) == <<"types", c, 0>>
NameAddr(c, i) == <<"name", c, i>>
SlotsAddr(c) == <<"slots", c, 0>>
RecAddr(c) == <<"concept", c, 0>>

FREED == "<freed>"
GARBAGE == "<garbage>"
PRINTFNULL == "(null)"

\* p is a block strdup returned
IsHeapStr(p) == p[1] \in {"id", "types", "name"}

VARIABLES
    conc,       \* conc[c]: the Concept record at address c
    mem,        \* contents of the caller's buffers and of the strdup blocks made so far
    slotsmem,   \* slotsmem[c]: the Slot array block of concept c
    hist,       \* hist[c]: the add_slot calls on c that passed the guard
    call,       \* the call made by the last step, with its allocation outcomes
    out,        \* the lines that call wrote to stdout
    rel,        \* the blocks that call passed to free(), in order
    status,     \* "running", "exit0", "exit1" or "crash"
    err,        \* the diagnostic written to stderr, "" if none
    pc,         \* "client": any caller; "m4".."m10": the line main() is at
    john,       \* main()'s local john
    book,       \* main()'s local book
    steps,      \* steps the general caller has taken
    int_max     \* INT_MAX of the build

vars == <<conc, mem, slotsmem, hist, call, out, rel, status, err, pc, john, book, steps,
          int_max>>

\* ------------------------------------------------------------- records
\* struct Slot; an element of the array that was never written
UNINIT == [name |-> <<"uninit", 0, 0>>, target |-> -1]
Slot(n, t) == [name |-> n, target |-> t]

\* A record's bytes before malloc and after free
NoRec(st) == [st |-> st, id |-> NULLA, types |-> NULLA, slots |-> NULLA,
              slot_count |-> 0, slot_capacity |-> 0]

\* the int a result of int arithmetic wraps to (two's complement)
Wrap(x) ==
    IF x > int_max THEN (x - int_max) - int_max - 2
    ELSE IF x < (-int_max) - 1 THEN (x + int_max) + int_max + 2
    ELSE x

\* what a const char* points at
Deref(p) ==
    IF p[1] = "lit" THEN LitVal[p[3]]
    ELSE IF p \in DOMAIN mem THEN mem[p]
    ELSE GARBAGE

Live(c) == c \in Concepts /\ conc[c].st = "Live"
LiveSet == {c \in Concepts : conc[c].st = "Live"}
FreedSet == {c \in Concepts : conc[c].st = "Freed"}
\* p points at a record that free_concept has released; no field of Concept
\* says so, and no function tests it
Dangling(p) == p \in Concepts /\ conc[p].st = "Freed"

NoCall == [op |-> "none", concept |-> NULL, s1 |-> NULLA, s2 |-> NULLA,
           target |-> NULL, ret |-> NULL, fails |-> {}]
Call(op, c, s1, s2, t, r, f) ==
    [op |-> op, concept |-> c, s1 |-> s1, s2 |-> s2, target |-> t, ret |-> r,
     fails |-> f]

BlankMem == [a \in Bufs |-> InitStr]

\* memory m after the string v is written to the block p
Store(m, p, v) ==
    IF p = NULLA THEN m
    ELSE [q \in DOMAIN m \cup {p} |-> IF q = p THEN v ELSE m[q]]

Init ==
    /\ conc = [c \in Concepts |-> NoRec("Uninit")]
    /\ mem = BlankMem
    /\ slotsmem = [c \in Concepts |-> <<>>]
    /\ hist = [c \in Concepts |-> <<>>]
    /\ call = NoCall
    /\ out = <<>>
    /\ rel = <<>>
    /\ status = "running"
    /\ err = ""
    /\ pc \in {"client", "m4"}
    /\ john = NULL
    /\ book = NULL
    /\ steps = 0
    /\ int_max = IntMax

\* exit(code), a crash, or a call that works on released memory ("undefined":
\* nothing is known of the process from then on)
Terminate(st, msg) ==
    /\ status' = st
    /\ err' = msg
    /\ conc' = [c \in Concepts |-> NoRec("Uninit")]
    /\ mem' = BlankMem
    /\ slotsmem' = [c \in Concepts |-> <<>>]
    /\ hist' = [c \in Concepts |-> <<>>]

\* ------------------------------------------------------------- create_concept
\* strdup replaced by keeping the caller's pointer
strdup_alias(src, fresh, ok) == IF ok THEN src ELSE NULLA

\* strdup(src): a fresh block holding a copy of src, or NULL when it fails
strdup(src, fresh, ok) == IF ok THEN fresh ELSE NULLA

\* id and types stored the wrong way round
NewConcept_swapped(idp, typesp) ==
    [st |-> "Live", id |-> typesp, types |-> idp, slots |-> NULLA,
     slot_count |-> 0, slot_capacity |-> 0]

\* The record create_concept returns (lines 185-186, 197-199)
NewConcept(idp, typesp) ==
    [st |-> "Live", id |-> idp, types |-> typesp, slots |-> NULLA,
     slot_count |-> 0, slot_capacity |-> 0]

\* free(p) of every non-NULL pointer of ps, in order
Released(ps) == SelectSeq(ps, LAMBDA p : p # NULLA)

\* a is the address malloc returns; okRec, okId, okTypes say whether malloc and
\* the two strdup calls succeed
create_concept(id, type, a, okRec, okId, okTypes) ==
    LET idp == strdup(id, IdAddr(a), okId)
        typesp == strdup(type, TypesAddr(a), okTypes)
        fails == IF ~okRec THEN {"concept"}
                 ELSE (IF okId THEN {} ELSE {"id"}) \cup (IF okTypes THEN {} ELSE {"types"})
    IN /\ out' = <<>>
       /\ ~okRec => (okId /\ okTypes)      \* strdup is not reached
       /\ IF ~okRec
          THEN /\ call' = Call("create_concept", NULL, id, type, NULL, NULL, fails)
               /\ rel' = <<>>
               /\ Terminate("exit1", "Failed to allocate memory for Concept.")
          ELSE IF idp = NULLA \/ typesp = NULLA
          THEN /\ call' = Call("create_concept", NULL, id, type, NULL, NULL, fails)
               /\ rel' = Released(<<idp, typesp, RecAddr(a)>>)
               /\ Terminate("exit1", "Failed to allocate memory for Concept strings.")
          ELSE /\ call' = Call("create_concept", NULL, id, type, NULL, a, fails)
               /\ rel' = <<>>
               /\ conc' = [conc EXCEPT ![a] = NewConcept(idp, typesp)]
               /\ mem' = Store(Store(mem, idp, Deref(id)), typesp, Deref(type))
               /\ UNCHANGED <<slotsmem, hist, status, err>>

\* ------------------------------------------------------------- add_slot
\* the guard without its test of slot_name
ArgsAbsent_noname(concept, slot_name, target) ==
    concept = NULL \/ target = NULL

\* the guard without its test of target
ArgsAbsent_notarget(concept, slot_name, target) ==
    concept = NULL \/ slot_name = NULLA

\* a guard that also turns away a concept that was torn down
ArgsAbsent_validity(concept, slot_name, target) ==
    concept = NULL \/ slot_name = NULLA \/ target = NULL \/ Dangling(concept)

\* line 104: the guard
ArgsAbsent(concept, slot_name, target) ==
    concept = NULL \/ slot_name = NULLA \/ target = NULL

\* growth one append too late
NeedsGrow_late(slot_count, slot_capacity) == slot_count > slot_capacity

\* storage regrown on every append
NeedsGrow_always(slot_count, slot_capacity) == TRUE

\* line 109
NeedsGrow(slot_count, slot_capacity) == slot_count >= slot_capacity

\* a first allocation of four elements instead of two
NewCapacity_from4(slot_capacity) ==
    IF slot_capacity = 0 THEN 4 ELSE Wrap(slot_capacity * 2)

\* growth by a fixed step instead of doubling
NewCapacity_linear(slot_capacity) ==
    IF slot_capacity = 0 THEN 2 ELSE Wrap(slot_capacity + 2)

\* line 110
NewCapacity(slot_capacity) ==
    IF slot_capacity = 0 THEN 2 ELSE Wrap(slot_capacity * 2)

\* elements of the block a successful realloc of line 111 returns: the
\* new_capacity of line 110, or, when that multiplication overflowed, what a
\* build that sized the request without wrapping asked for (a build that
\* wrapped asked for more than the address space and takes line 112)
Granted(slot_capacity, new_capacity) ==
    IF new_capacity > 0 THEN new_capacity ELSE 2 * slot_capacity

\* realloc(old, n): a block of n elements that starts with old's elements
realloc(old, n) == [i \in 1..n |-> IF i <= Len(old) THEN old[i] ELSE UNINIT]

\* okGrow and okName say whether realloc and strdup succeed
add_slot(concept, slot_name, target, okGrow, okName) ==
    /\ out' = <<>>
    /\ rel' = <<>>
    /\ IF ArgsAbsent(concept, slot_name, target)
       THEN /\ okGrow /\ okName           \* nothing is allocated
            /\ call' = Call("add_slot", concept, slot_name, NULLA, target, NULL, {})
            /\ UNCHANGED <<conc, mem, slotsmem, hist, status, err>>
       ELSE IF Dangling(concept)
       THEN /\ okGrow /\ okName           \* line 109 reads the released record
            /\ call' = Call("add_slot", concept, slot_name, NULLA, target, NULL, {})
            /\ Terminate("undefined", "")
       ELSE LET r == conc[concept]
                grow == NeedsGrow(r.slot_count, r.slot_capacity)
                cap1 == IF grow THEN NewCapacity(r.slot_capacity) ELSE r.slot_capacity
                arr1 == IF grow
                        THEN realloc(slotsmem[concept], Granted(r.slot_capacity, cap1))
                        ELSE slotsmem[concept]
                idx == r.slot_count
                namep == strdup(slot_name, NameAddr(concept, idx), okName)
                \* a write past the end of the block does not land in it
                arr2 == IF idx < Len(arr1)
                        THEN [arr1 EXCEPT ![idx + 1] = Slot(namep, target)]
                        ELSE arr1
                fails == IF okName THEN {} ELSE {"name"}
            IN IF grow /\ ~okGrow
               THEN /\ okName                 \* strdup is not reached
                    /\ call' = Call("add_slot", concept, slot_name, NULLA, target,
                                    NULL, {"slots"})
                    /\ Terminate("exit1", "Failed to allocate memory for slots.")
               ELSE /\ ~grow => okGrow        \* realloc is not called
                    /\ call' = Call("add_slot", concept, slot_name, NULLA, target,
                                    NULL, fails)
                    /\ conc' = [conc EXCEPT ![concept] =
                                  [r EXCEPT !.slots = IF grow THEN SlotsAddr(concept) ELSE @,
                                            !.slot_capacity = cap1,
                                            !.slot_count = Wrap(idx + 1)]]
                    /\ slotsmem' = [slotsmem EXCEPT ![concept] = arr2]
                    /\ mem' = Store(mem, namep, Deref(slot_name))
                    /\ hist' = [hist EXCEPT ![concept] =
                                  Append(@, [name |-> Deref(slot_name), target |-> target])]
                    /\ UNCHANGED <<status, err>>

\* ------------------------------------------------------------- print_concept
\* element i (0-based) of the slot array of c
SlotAt(c, i) == IF i + 1 <= Len(slotsmem[c]) THEN slotsmem[c][i + 1] ELSE UNINIT

\* "%d"
FmtInt(n) == ToString(n)

\* what printf("%s", name) writes; ubn is the outcome of passing it NULL
NameText(s, ubn) == IF s.name = NULLA THEN ubn ELSE Deref(s.name)

\* what printf("%s", target->id) writes; ubt is the outcome of reading a record
\* that is not (or no longer) allocated
TargetText(s, ubt) ==
    IF Live(s.target) THEN Deref(conc[s.target].id) ELSE ubt

\* lines 51-57
SlotLines(c, i, ubn, ubt) ==
    LET s == SlotAt(c, i)
    IN << <<"\t#", FmtInt(i + 1)>>,
          <<"\t\tName: ", NameText(s, ubn)>>,
          IF s.target # NULL
          THEN <<"\t\tTarget: ", TargetText(s, ubt)>>
          ELSE <<"\t\tTarget: (null)", "">> >>

RECURSIVE SlotsFrom(_, _, _, _)
\* the loop of line 50, from index i on
SlotsFrom(c, i, ubn, ubt) ==
    IF i < conc[c].slot_count
    THEN SlotLines(c, i, ubn, ubt) \o SlotsFrom(c, i + 1, ubn, ubt)
    ELSE <<>>

\* lines 46-58
PrintLines(c, ubn, ubt) ==
    << <<"ID: ", Deref(conc[c].id)>>,
       <<"Types: ", Deref(conc[c].types)>>,
       <<"Slots (# of slots = ", FmtInt(conc[c].slot_count), "):">> >>
    \o SlotsFrom(c, 0, ubn, ubt)

\* print_concept(c) passes NULL to "%s" or reads the record of a freed target
ReadsUndefined(c) ==
    \E i \in 0..(conc[c].slot_count - 1) :
        LET s == SlotAt(c, i)
        IN s.name = NULLA \/ (s.target # NULL /\ ~Live(s.target))

UBName == {PRINTFNULL, GARBAGE}
UBTarget == {GARBAGE}

\* print_concept without the test of line 44: NULL is dereferenced
print_concept_noguard(concept, ubn, ubt, crash) ==
    /\ rel' = <<>>
    /\ call' = Call("print_concept", concept, NULLA, NULLA, NULL, NULL, {})
    /\ IF concept = NULL
       THEN /\ ~crash
            /\ out' = <<>>
            /\ Terminate("crash", "")
       ELSE IF Dangling(concept)
       THEN /\ ~crash
            /\ out' = <<>>
            /\ Terminate("undefined", "")
       ELSE IF crash
       THEN /\ ReadsUndefined(concept)
            /\ out' = <<>>
            /\ Terminate("crash", "")
       ELSE /\ out' = PrintLines(concept, ubn, ubt)
            /\ UNCHANGED <<conc, mem, slotsmem, hist, status, err>>

\* ubn, ubt, crash: how the undefined reads of this call turn out
print_concept(concept, ubn, ubt, crash) ==
    /\ rel' = <<>>
    /\ call' = Call("print_concept", concept, NULLA, NULLA, NULL, NULL, {})
    /\ IF concept = NULL
       THEN /\ ~crash
            /\ out' = <<>>
            /\ UNCHANGED <<conc, mem, slotsmem, hist, status, err>>
       ELSE IF Dangling(concept)
       THEN /\ ~crash                     \* line 46 reads the released record
            /\ out' = <<>>
            /\ Terminate("undefined", "")
       ELSE IF crash
       THEN /\ ReadsUndefined(concept)
            /\ out' = <<>>
            /\ Terminate("crash", "")
       ELSE /\ out' = PrintLines(concept, ubn, ubt)
            /\ UNCHANGED <<conc, mem, slotsmem, hist, status, err>>

\* ------------------------------------------------------------- free_concept
RECURSIVE NamesFrom(_, _)
\* the loop of lines 247-249, from index i on
NamesFrom(c, i) ==
    IF i < conc[c].slot_count
    THEN <<SlotAt(c, i).name>> \o NamesFrom(c, i + 1)
    ELSE <<>>

RECURSIVE TargetBlocksFrom(_, _)
\* a teardown that follows the slot targets
TargetBlocksFrom(c, i) ==
    IF i < conc[c].slot_count
    THEN LET t == SlotAt(c, i).target
         IN (IF t \in Concepts /\ t # c
             THEN <<conc[t].id, conc[t].types, RecAddr(t)>> ELSE <<>>)
            \o TargetBlocksFrom(c, i + 1)
    ELSE <<>>

FreeList_deep(c) ==
    <<conc[c].id, conc[c].types>> \o NamesFrom(c, 0) \o TargetBlocksFrom(c, 0)
    \o <<conc[c].slots, RecAddr(c)>>

\* the record released before the slot storage
FreeList_recordfirst(c) ==
    <<conc[c].id, conc[c].types>> \o NamesFrom(c, 0)
    \o <<RecAddr(c), conc[c].slots>>

\* lines 244-253: the pointers passed to free(), in order
FreeList(c) ==
    <<conc[c].id, conc[c].types>> \o NamesFrom(c, 0)
    \o <<conc[c].slots, RecAddr(c)>>

Range(f) == {f[i] : i \in DOMAIN f}

\* a teardown that clears the slots of other concepts that target the concept
free_concept_unlink(concept) ==
    /\ out' = <<>>
    /\ call' = Call("free_concept", concept, NULLA, NULLA, NULL, NULL, {})
    /\ IF concept = NULL
       THEN /\ rel' = <<>>
            /\ UNCHANGED <<conc, mem, slotsmem, hist, status, err>>
       ELSE IF Dangling(concept)
       THEN /\ rel' = <<>>                \* line 244 reads the released record
            /\ Terminate("undefined", "")
       ELSE LET fl == Released(FreeList(concept))
                gone == Range(fl)
            IN /\ rel' = fl
               /\ mem' = [p \in DOMAIN mem |->
                            IF p \in gone /\ IsHeapStr(p) THEN FREED ELSE mem[p]]
               /\ conc' = [d \in Concepts |->
                             IF RecAddr(d) \in gone THEN NoRec("Freed") ELSE conc[d]]
               /\ slotsmem' = [d \in Concepts |->
                                 IF SlotsAddr(d) \in gone \/ RecAddr(d) \in gone
                                 THEN <<>>
                                 ELSE [i \in DOMAIN slotsmem[d] |->
                                         IF slotsmem[d][i].target = concept
                                         THEN Slot(slotsmem[d][i].name, NULL)
                                         ELSE slotsmem[d][i]]]
               /\ hist' = [d \in Concepts |->
                             IF RecAddr(d) \in gone THEN <<>> ELSE hist[d]]
               /\ UNCHANGED <<status, err>>

free_concept(concept) ==
    /\ out' = <<>>
    /\ call' = Call("free_concept", concept, NULLA, NULLA, NULL, NULL, {})
    /\ IF concept = NULL
       THEN /\ rel' = <<>>
            /\ UNCHANGED <<conc, mem, slotsmem, hist, status, err>>
       ELSE IF Dangling(concept)
       THEN /\ rel' = <<>>                \* line 244 reads the released record
            /\ Terminate("undefined", "")
       ELSE LET fl == Released(FreeList(concept))
                gone == Range(fl)
            IN /\ rel' = fl
               /\ mem' = [p \in DOMAIN mem |->
                            IF p \in gone /\ IsHeapStr(p) THEN FREED ELSE mem[p]]
               /\ conc' = [d \in Concepts |->
                             IF RecAddr(d) \in gone THEN NoRec("Freed") ELSE conc[d]]
               /\ slotsmem' = [d \in Concepts |->
                                 IF SlotsAddr(d) \in gone \/ RecAddr(d) \in gone
                                 THEN <<>> ELSE slotsmem[d]]
               /\ hist' = [d \in Concepts |->
                             IF RecAddr(d) \in gone THEN <<>> ELSE hist[d]]
               /\ UNCHANGED <<status, err>>

\* ------------------------------------------------------------- callers
Running == status = "running"
Unused == {a \in Concepts : conc[a].st = "Uninit"}
\* the address malloc(sizeof(Concept)) returns
Fresh == {a \in Unused : \A b \in Unused : a <= b}
\* slots held by all concepts together
RECURSIVE SlotTotal(_)
SlotTotal(cs) ==
    IF cs = {} THEN 0
    ELSE LET c == CHOOSE x \in cs : TRUE
         IN conc[c].slot_count + SlotTotal(cs \ {c})
KeepMain == UNCHANGED <<pc, john, book>>
Tick == steps < MaxCalls /\ steps' = steps + 1 /\ int_max' = int_max

\* A caller that makes any call of the API on the concepts it holds
ClientCreate ==
    /\ Running /\ pc = "client" /\ Tick
    /\ \E id \in Bufs, type \in Bufs, a \in Fresh, okRec, okId, okTypes \in BOOLEAN :
          create_concept(id, type, a, okRec, okId, okTypes)
    /\ KeepMain

ClientAdd ==
    /\ Running /\ pc = "client" /\ Tick
    /\ \E c \in LiveSet \cup FreedSet \cup {NULL}, n \in Bufs \cup {NULLA},
          t \in LiveSet \cup {NULL},
          okGrow, okName \in BOOLEAN :
          /\ SlotTotal(Concepts) < MaxSlots
          /\ add_slot(c, n, t, okGrow, okName)
    /\ KeepMain

ClientPrint ==
    /\ Running /\ pc = "client" /\ Tick
    /\ \E c \in LiveSet \cup FreedSet \cup {NULL}, ubn \in UBName, ubt \in UBTarget,
          crash \in BOOLEAN :
          print_concept(c, ubn, ubt, crash)
    /\ KeepMain

ClientFree ==
    /\ Running /\ pc = "client" /\ Tick
    /\ \E c \in LiveSet \cup FreedSet \cup {NULL} : free_concept(c)
    /\ KeepMain

\* The caller overwrites one of its own string buffers (concept.c lines 92-95:
\* the string passed in "might be a temp string")
ClientWrite ==
    /\ Running /\ pc = "client" /\ Tick
    /\ \E b \in Bufs, v \in Strs :
          /\ v # mem[b]
          /\ mem' = [mem EXCEPT ![b] = v]
          /\ call' = Call("caller_write", NULL, b, NULLA, NULL, NULL, {})
    /\ out' = <<>>
    /\ rel' = <<>>
    /\ UNCHANGED <<conc, slotsmem, hist, status, err>>
    /\ KeepMain

\* main.c, line by line
MainL4 ==
    /\ steps' = steps /\ int_max' = int_max
    /\ Running /\ pc = "m4"
    /\ \E a \in Fresh, okRec, okId, okTypes \in BOOLEAN :
          create_concept(Lit(1), Lit(2), a, okRec, okId, okTypes)
    /\ john' = call'.ret
    /\ pc' = "m5"
    /\ book' = book

MainL5 ==
    /\ steps' = steps /\ int_max' = int_max
    /\ Running /\ pc = "m5"
    /\ \E a \in Fresh, okRec, okId, okTypes \in BOOLEAN :
          create_concept(Lit(3), Lit(4), a, okRec, okId, okTypes)
    /\ book' = call'.ret
    /\ pc' = "m7"
    /\ john' = john

MainL7 ==
    /\ steps' = steps /\ int_max' = int_max
    /\ Running /\ pc = "m7"
    /\ \E okGrow, okName \in BOOLEAN : add_slot(john, Lit(5), book, okGrow, okName)
    /\ pc' = "m8"
    /\ UNCHANGED <<john, book>>

MainL8 ==
    /\ steps' = steps /\ int_max' = int_max
    /\ Running /\ pc = "m8"
    /\ \E ubn \in UBName, ubt \in UBTarget, crash \in BOOLEAN :
          print_concept(john, ubn, ubt, crash)
    /\ pc' = "m10"
    /\ UNCHANGED <<john, book>>

MainL10 ==
    /\ steps' = steps /\ int_max' = int_max
    /\ Running /\ pc = "m10"
    /\ call' = Call("return", NULL, NULLA, NULLA, NULL, NULL, {})
    /\ out' = <<>>
    /\ rel' = <<>>
    /\ Terminate("exit0", "")
    /\ pc' = "halt"
    /\ UNCHANGED <<john, book>>

Next ==
    \/ ClientCreate
    \/ ClientAdd
    \/ ClientPrint
    \/ ClientFree
    \/ ClientWrite
    \/ MainL4
    \/ MainL5
    \/ MainL7
    \/ MainL8
    \/ MainL10

Spec == Init /\ [][Next]_vars

\* A caller that builds one concept and keeps appending to it
DeepCreate ==
    /\ Running /\ pc = "client" /\ steps' = steps /\ int_max' = int_max
    /\ Unused = Concepts
    /\ \E id \in Bufs, type \in Bufs, a \in Fresh, okRec, okId, okTypes \in BOOLEAN :
          create_concept(id, type, a, okRec, okId, okTypes)
    /\ KeepMain

DeepAdd ==
    /\ Running /\ pc = "client" /\ steps' = steps /\ int_max' = int_max
    /\ \E c \in LiveSet, n \in Bufs, t \in LiveSet \cup {NULL}, okGrow, okName \in BOOLEAN :
          /\ conc[c].slot_count < MaxDeepSlots
          /\ add_slot(c, n, t, okGrow, okName)
    /\ KeepMain

DeepPrint ==
    /\ Running /\ pc = "client" /\ steps' = steps /\ int_max' = int_max
    /\ \E c \in LiveSet, ubn \in UBName, ubt \in UBTarget, crash \in BOOLEAN :
          print_concept(c, ubn, ubt, crash)
    /\ KeepMain

DeepFree ==
    /\ Running /\ pc = "client" /\ steps' = steps /\ int_max' = int_max
    /\ \E c \in LiveSet : free_concept(c)
    /\ KeepMain

InitDeep == Init /\ pc = "client"

NextDeep ==
    \/ DeepCreate
    \/ DeepAdd
    \/ DeepPrint
    \/ DeepFree

SpecDeep == InitDeep /\ [][NextDeep]_vars

\* The single-concept caller in a build whose int has NarrowBits bits
InitNarrow ==
    /\ conc = [c \in Concepts |-> NoRec("Uninit")]
    /\ mem = BlankMem
    /\ slotsmem = [c \in Concepts |-> <<>>]
    /\ hist = [c \in Concepts |-> <<>>]
    /\ call = NoCall
    /\ out = <<>>
    /\ rel = <<>>
    /\ status = "running"
    /\ err = ""
    /\ pc = "client"
    /\ john = NULL
    /\ book = NULL
    /\ steps = 0
    /\ int_max = NarrowIntMax

SpecNarrow == InitNarrow /\ [][NextDeep]_vars

\* ------------------------------------------------------------- properties
Returned(op) == call.op = op /\ status = "running"
\* the populated slots of c, in index order
Slots(c) == [i \in 1..conc[c].slot_count |-> SlotAt(c, i - 1)]
\* the blocks a concept at address c owns
OwnedBy(c) == {p \in DOMAIN mem : IsHeapStr(p) /\ p[2] = c}

\* C1: after N add_slot calls on a concept with all three arguments present the
\* slot count is N, and slot i holds a name equal in value to the name of the
\* i-th call and the target of the i-th call.
C1_SlotsAreTheCalls ==
    \A c \in LiveSet :
        /\ conc[c].slot_count = Len(hist[c])
        /\ \A i \in 1..Len(hist[c]) :
              /\ SlotAt(c, i - 1).name # NULLA
              /\ Deref(SlotAt(c, i - 1).name) = hist[c][i].name
              /\ SlotAt(c, i - 1).target = hist[c][i].target

\* C2: an add_slot call with the concept, the name or the target absent changes
\* no concept, no string, no slot storage, allocates nothing, writes no
\* diagnostic and does not end the process.
C2_AbsentIsNoOp ==
    [][(call'.op = "add_slot"
        /\ (call'.concept = NULL \/ call'.s1 = NULLA \/ call'.target = NULL))
       => /\ conc' = conc
          /\ mem' = mem
          /\ slotsmem' = slotsmem
          /\ call'.fails = {}
          /\ rel' = <<>>
          /\ err' = err
          /\ status' = "running"]_vars

\* add_slot was just called with only the target absent, on a concept with a slot
C2_Witness ==
    /\ Returned("add_slot")
    /\ call.concept \in LiveSet /\ call.s1 # NULLA /\ call.target = NULL
    /\ conc[call.concept].slot_count > 0

\* C7: when an allocation made by create_concept or add_slot fails, the process
\* is terminated after a diagnostic; the call does not return.
C7_AllocFailureIsFatal ==
    call.fails # {} => (status = "exit1" /\ err # "")

\* the capacity the spec's table gives for a count of k slots, up to 16
TableCapacity(k) ==
    IF k = 0 THEN 0 ELSE IF k <= 2 THEN 2 ELSE IF k <= 4 THEN 4
    ELSE IF k <= 8 THEN 8 ELSE 16

C5_TargetNeverAbsent ==
    /\ \A c \in LiveSet : \A i \in 1..conc[c].slot_count : Slots(c)[i].target # NULL
    /\ \A k \in DOMAIN out : out[k][1] # "\t\tTarget: (null)"

\* print_concept has just written a concept with two slots
C5_Witness ==
    /\ Returned("print_concept")
    /\ call.concept \in LiveSet
    /\ conc[call.concept].slot_count = 2
    /\ Len(out) = 9

C8_ConstructIsEmptyAndFresh ==
    [][(call'.op = "create_concept" /\ status' = "running") =>
         LET a == call'.ret
         IN /\ a \in Concepts
            /\ conc[a].st = "Uninit"
            /\ conc'[a].st = "Live"
            /\ conc'[a].id # NULLA /\ conc'[a].types # NULLA
            /\ mem'[conc'[a].id] = Deref(call'.s1)
            /\ mem'[conc'[a].types] = Deref(call'.s2)
            /\ conc'[a].slot_count = 0
            /\ conc'[a].slot_capacity = 0
            /\ conc'[a].slots = NULLA
            /\ slotsmem'[a] = <<>>
            /\ \A d \in Concepts \ {a} :
                 /\ conc'[d] = conc[d]
                 /\ slotsmem'[d] = slotsmem[d]
                 /\ OwnedBy(d)' = OwnedBy(d)
                 /\ \A p \in OwnedBy(d) : mem'[p] = mem[p]
       ]_vars

\* main() has just created book ("book", "Object") beside john
C8_Witness ==
    /\ Returned("create_concept")
    /\ pc = "m7"
    /\ john \in LiveSet /\ book \in LiveSet /\ john # book
    /\ mem[conc[book].id] = "book" /\ mem[conc[book].types] = "Object"

\* the string pointers a Live concept stores: id, types, slot names
Ptrs(c) == <<conc[c].id, conc[c].types>> \o NamesFrom(c, 0)
\* the strings they point at
StoredStrings(c) == [i \in DOMAIN Ptrs(c) |-> Deref(Ptrs(c)[i])]

\* the blocks they name
PtrSet(c) == Range(Ptrs(c)) \ {NULLA}
\* every stored pointer is a strdup block, and no block is stored twice
NoSharing ==
    \A c \in LiveSet :
        /\ \A p \in PtrSet(c) : IsHeapStr(p)
        /\ Cardinality(PtrSet(c)) =
              Cardinality({i \in DOMAIN Ptrs(c) : Ptrs(c)[i] # NULLA})
        /\ \A d \in LiveSet \ {c} : PtrSet(c) \cap PtrSet(d) = {}

\* C9: the stored id, types and slot names are copies: a write by the caller to
\* the buffer it passed leaves them unchanged, no stored pointer is a buffer
\* of the caller, and no two stored pointers are the same block.
C9_StringsAreCopies ==
    [][/\ call'.op = "caller_write" =>
            \A c \in LiveSet : StoredStrings(c)' = StoredStrings(c)
       /\ NoSharing'
      ]_vars

\* the caller has just overwritten the buffer it passed as id, types and slot
\* name of a Live concept, and now holds another string than the stored ones
C9_Witness ==
    /\ Returned("caller_write")
    /\ \E c \in LiveSet :
          /\ conc[c].slot_count >= 1
          /\ \A i \in DOMAIN Ptrs(c) :
                Ptrs(c)[i] # NULLA /\ StoredStrings(c)[i] # mem[call.s1]

\* C10: print_concept of a Live concept with n slots writes 3 + 3n lines:
\* "ID: <id>", "Types: <type>", "Slots (# of slots = <n>):", then per slot i
\* "#<i>", "Name: <name of the i-th append>", "Target: <id of its target>";
\* main() writes ID: john / Types: Person / Slots (# of slots = 1): / #1 /
\* Name: owns / Target: book.
C10_RenderFormat ==
    /\ (Returned("print_concept") /\ call.concept # NULL) =>
          LET c == call.concept
              n == Len(hist[c])
          IN /\ Len(out) = 3 + 3 * n
             /\ out[1] = <<"ID: ", mem[conc[c].id]>>
             /\ out[2] = <<"Types: ", mem[conc[c].types]>>
             /\ out[3] = <<"Slots (# of slots = ", ToString(n), "):">>
             /\ \A i \in 1..n :
                   /\ out[3 * i + 1] = <<"\t#", ToString(i)>>
                   /\ out[3 * i + 2] = <<"\t\tName: ", hist[c][i].name>>
                   /\ Live(hist[c][i].target)
                   /\ out[3 * i + 3] =
                        <<"\t\tTarget: ", mem[conc[hist[c][i].target].id]>>
    /\ (pc = "m10" /\ status = "running") =>
          out = << <<"ID: ", "john">>, <<"Types: ", "Person">>,
                   <<"Slots (# of slots = ", "1", "):">>,
                   <<"\t#", "1">>, <<"\t\tName: ", "owns">>,
                   <<"\t\tTarget: ", "book">> >>

\* C11: print_concept(NULL) writes nothing, signals nothing and returns; a
\* print_concept that returns leaves every concept, every string and every
\* slot array as it was.
C11_RenderIsReadOnly ==
    [][call'.op = "print_concept" =>
         /\ call'.concept = NULL =>
               /\ out' = <<>>
               /\ err' = err
               /\ status' = "running"
         /\ status' = "running" =>
               /\ conc' = conc
               /\ mem' = mem
               /\ slotsmem' = slotsmem
               /\ rel' = <<>>
               /\ err' = err
      ]_vars

\* print_concept(NULL) has just returned while a concept with a slot is Live
C11_Witness ==
    /\ Returned("print_concept")
    /\ call.concept = NULL
    /\ out = <<>>
    /\ \E c \in LiveSet : conc[c].slot_count > 0

\* the name blocks of slots 0..n-1 of c that exist, in index order
RECURSIVE NameBlocks(_, _, _)
NameBlocks(c, i, n) ==
    IF i >= n THEN <<>>
    ELSE (IF NameAddr(c, i) \in DOMAIN mem THEN <<NameAddr(c, i)>> ELSE <<>>)
         \o NameBlocks(c, i + 1, n)

\* C12: free_concept of a Live concept with n slots releases, in this order,
\* its id block, its types block, the name blocks of slots 1..n in index
\* order, the slot array and last the record, and nothing else (no target);
\* free_concept(NULL) releases nothing.
C12_ReleaseOrder ==
    [][call'.op = "free_concept" =>
         IF call'.concept = NULL
         THEN rel' = <<>>
         ELSE LET c == call'.concept
              IN conc[c].st = "Live" =>
                   rel' = <<IdAddr(c), TypesAddr(c)>>
                          \o NameBlocks(c, 0, conc[c].slot_count)
                          \o (IF conc[c].slot_capacity > 0 THEN <<SlotsAddr(c)>> ELSE <<>>)
                          \o <<RecAddr(c)>>
      ]_vars

\* free_concept has just released a concept with two named slots, one of them
\* targeting a concept that is still Live
C12_Witness ==
    /\ Returned("free_concept")
    /\ call.concept \in Concepts
    /\ Len(rel) = 6
    /\ rel[3] = NameAddr(call.concept, 0)
    /\ rel[4] = NameAddr(call.concept, 1)
    /\ LiveSet # {}

\* C13: an add_slot(c, name, t) with all arguments present that returns adds
\* one to c's slot_count and writes one slot, holding t itself, at the old
\* count; capacity changes only when the count had reached it; c's id and
\* types, the slots below the old count, t and every other concept and their
\* blocks are unchanged; the only new block is the name copy of the new slot.
C13_AppendFrame ==
    [][(/\ call'.op = "add_slot"
        /\ call'.concept # NULL /\ call'.s1 # NULLA /\ call'.target # NULL
        /\ conc[call'.concept].st = "Live"
        /\ status' = "running") =>
         LET c == call'.concept
             t == call'.target
             k == conc[c].slot_count
         IN /\ conc'[c].slot_count = k + 1
            /\ Len(slotsmem'[c]) >= k + 1
            /\ slotsmem'[c][k + 1].target = t
            /\ slotsmem'[c][k + 1].name \in {NULLA, NameAddr(c, k)}
            /\ \A i \in 1..k : slotsmem'[c][i] = slotsmem[c][i]
            /\ conc'[c].slot_capacity # conc[c].slot_capacity =>
                  k = conc[c].slot_capacity
            /\ conc'[c].st = "Live"
            /\ conc'[c].id = conc[c].id /\ conc'[c].types = conc[c].types
            /\ \A d \in Concepts \ {c} :
                  /\ conc'[d] = conc[d]
                  /\ slotsmem'[d] = slotsmem[d]
            /\ DOMAIN mem' \ DOMAIN mem \subseteq {NameAddr(c, k)}
            /\ \A p \in DOMAIN mem : mem'[p] = mem[p]
      ]_vars

\* the second append to a concept has just returned, its target being the
\* other Live concept, which has its own slot
C13_Witness ==
    /\ Returned("add_slot")
    /\ call.concept \in LiveSet /\ call.target \in LiveSet
    /\ call.target # call.concept
    /\ conc[call.concept].slot_count = 2
    /\ Slots(call.concept)[2].target = call.target

\* C14: free_concept(t) of a Live t returns with t Freed whether or not slots
\* of Live concepts target t, and leaves those slots as they were, so a Live
\* concept is left with a slot whose target is Freed; a print_concept of that
\* concept that returns has printed for such a slot what a read of the
\* released record gave it.
C14_NoReferenceTracking ==
    [][/\ (call'.op = "free_concept" /\ Live(call'.concept)) =>
             LET t == call'.concept
             IN /\ status' = "running"
                /\ conc'[t].st = "Freed"
                /\ \A d \in LiveSet \ {t} :
                      /\ conc'[d].st = "Live"
                      /\ Slots(d)' = Slots(d)
       /\ (/\ call'.op = "print_concept" /\ Live(call'.concept)
           /\ status' = "running") =>
             LET a == call'.concept
             IN \A i \in 1..conc[a].slot_count :
                   Dangling(Slots(a)[i].target) =>
                      /\ Len(out') >= 3 * i + 3
                      /\ out'[3 * i + 3][1] = "\t\tTarget: "
                      /\ out'[3 * i + 3][2] \in UBTarget
      ]_vars

\* print_concept has just returned from a Live concept whose first slot targets
\* a Freed concept
C14_Witness ==
    /\ Returned("print_concept")
    /\ Live(call.concept)
    /\ conc[call.concept].slot_count = 1
    /\ Dangling(Slots(call.concept)[1].target)
    /\ Len(out) = 6
    /\ out[6] = <<"\t\tTarget: ", GARBAGE>>

\* C15: a concept's lifecycle state changes only from Uninit to Live, by the
\* create_concept that returns it, and from Live to Freed, by free_concept of
\* it: add_slot and print_concept change no lifecycle state and nothing leaves
\* Freed; and a free_concept, print_concept or add_slot given a Freed concept is
\* not turned away: it works on the released record, with no diagnostic.
C15_Lifecycle ==
    [][/\ status' = "running" =>
             \A c \in Concepts :
                conc'[c].st # conc[c].st =>
                   \/ /\ conc[c].st = "Uninit" /\ conc'[c].st = "Live"
                      /\ call'.op = "create_concept" /\ call'.ret = c
                   \/ /\ conc[c].st = "Live" /\ conc'[c].st = "Freed"
                      /\ call'.op = "free_concept" /\ call'.concept = c
       /\ (/\ Dangling(call'.concept)
           /\ \/ call'.op \in {"free_concept", "print_concept"}
              \/ /\ call'.op = "add_slot"
                 /\ call'.s1 # NULLA /\ call'.target # NULL) =>
             /\ status' = "undefined"
             /\ err' = ""
      ]_vars

\* a second free_concept of the same concept has been made
C15_Witness ==
    /\ status = "undefined"
    /\ call.op = "free_concept"
    /\ call.concept \in Concepts

\* the string blocks and the slot arrays that are allocated
LiveBlocks == {p \in DOMAIN mem : IsHeapStr(p) /\ mem[p] # FREED}
LiveArrays == {c \in Concepts : Len(slotsmem[c]) > 0}
\* the string blocks a Live concept owns: its id, its types and one name for
\* each populated slot
OwnBlocks(c) ==
    {IdAddr(c), TypesAddr(c)} \cup {NameAddr(c, i - 1) : i \in 1..conc[c].slot_count}

\* C16: while no call has used a torn-down concept, the allocated blocks are
\* exactly those of the Live concepts: for each its record, its id string, its
\* types string, one name string for each populated slot, and a slot array
\* exactly when slot_capacity > 0; free_concept releases no block twice and
\* leaves no block of its concept allocated, so when no concept is Live
\* nothing is allocated.
C16_HeapAccounting ==
    status # "undefined" =>
       /\ LiveBlocks = UNION {OwnBlocks(c) : c \in LiveSet}
       /\ LiveArrays = {c \in LiveSet : conc[c].slot_capacity > 0}
       /\ \A c \in LiveSet : conc[c].slots = NULLA <=> conc[c].slot_capacity = 0
       /\ Cardinality(Range(rel)) = Len(rel)
       /\ \A p \in Range(rel) : p \notin LiveBlocks
       /\ LiveSet = {} => LiveBlocks = {} /\ LiveArrays = {}

RECURSIVE Pow2AtLeast(_, _)
\* the smallest p * 2^j that is >= k
Pow2AtLeast(k, p) == IF p >= k THEN p ELSE Pow2AtLeast(k, 2 * p)
IsPow2(n) == n >= 1 /\ Pow2AtLeast(n, 1) = n

C18_GrowthStaysInRange ==
    [][\A c \in Concepts :
          (/\ call'.op = "add_slot" /\ call'.concept = c
           /\ Live(c) /\ conc'[c].st = "Live"
           /\ conc'[c].slot_capacity # conc[c].slot_capacity) =>
             /\ conc'[c].slot_capacity > conc[c].slot_count
             /\ conc'[c].slot_capacity > 0
             /\ conc'[c].slot_capacity =
                   (IF conc[c].slot_capacity = 0 THEN 2 ELSE 2 * conc[c].slot_capacity)
             /\ conc'[c].slot_count = conc[c].slot_count + 1
             /\ conc'[c].slot_count <= conc'[c].slot_capacity
      ]_vars

====
